---- MODULE Spec2Model ----
\* A model of the macOS pasteboard handle of window_clipboard
\* (src/macos/src/lib.rs): Clipboard::new, read, read_data, read_buffer,
\* write and write_data, together with the NSPasteboard operations they call.
\*
\* A Rust String / &str is modelled as its UTF-8 byte sequence, an NSString as
\* its UTF-16 code-unit sequence, an NSData as its byte sequence, and an
\* NSPasteboardItem as the ordered sequence of its (type, data)
\* representations.  The pasteboard is the ordered sequence of its items.
EXTENDS Integers, Sequences, FiniteSets, TLC

\* ---------------------------------------------------------------- bounds
MaxTextLen == 1      \* code points per text argument
MaxDataLen == 1      \* bytes per attachment argument

\* Code points the text arguments are drawn from: one of each UTF-8 width
\* (1, 2, 3 and 4 bytes; the last one needs a UTF-16 surrogate pair).
CodePoints == {65, 233, 8364, 128512}
\* Byte values the attachment arguments are drawn from.
DataBytes == {1, 2}

\* ------------------------------------------------------ type identifiers
TypeText == "public.utf8-plain-text"
TypeAttachment == "com.kakao.kakaoTalk.emoji.attachment"

\* ------------------------------------------------------- error messages
ErrNewNull == "NSPasteboard#generalPasteboard returned null"
ErrReadNull == "pasteboard#readObjectsForClasses:options: returned null"
ErrReadEmpty == "pasteboard#readObjectsForClasses:options: returned empty"
ErrWriteFalse == "NSPasteboard#writeObjects: returned false"

\* ------------------------------------------------------------- Option<T>
None == [some |-> FALSE, val |-> <<>>]
Some(v) == [some |-> TRUE, val |-> v]

\* ---------------------------------------------------- sequences, helpers
RECURSIVE SeqsOfLen(_, _)
SeqsOfLen(S, n) ==
    IF n = 0 THEN {<<>>}
    ELSE {Append(s, x) : s \in SeqsOfLen(S, n - 1), x \in S}

SeqsUpTo(S, n) == UNION {SeqsOfLen(S, k) : k \in 0..n}

\* ----------------------------------------------------------------- UTF-8
ReplacementChar == 65533

Utf8OfCp(c) ==
    IF c < 128 THEN <<c>>
    ELSE IF c < 2048 THEN <<192 + (c \div 64), 128 + (c % 64)>>
    ELSE IF c < 65536 THEN
        <<224 + (c \div 4096), 128 + ((c \div 64) % 64), 128 + (c % 64)>>
    ELSE <<240 + (c \div 262144), 128 + ((c \div 4096) % 64),
           128 + ((c \div 64) % 64), 128 + (c % 64)>>

RECURSIVE Utf8Encode(_)
Utf8Encode(cps) ==
    IF cps = <<>> THEN <<>>
    ELSE Utf8OfCp(Head(cps)) \o Utf8Encode(Tail(cps))

\* Number of bytes the sequence introduced by lead byte b has; 0 when b
\* cannot start a sequence.
Utf8Width(b) ==
    IF b < 128 THEN 1
    ELSE IF b >= 194 /\ b <= 223 THEN 2
    ELSE IF b >= 224 /\ b <= 239 THEN 3
    ELSE IF b >= 240 /\ b <= 244 THEN 4
    ELSE 0

\* Is c acceptable as the k-th continuation byte after lead byte b?
Utf8ContOk(b, k, c) ==
    IF k = 1 /\ b = 224 THEN c >= 160 /\ c <= 191
    ELSE IF k = 1 /\ b = 237 THEN c >= 128 /\ c <= 159
    ELSE IF k = 1 /\ b = 240 THEN c >= 144 /\ c <= 191
    ELSE IF k = 1 /\ b = 244 THEN c >= 128 /\ c <= 143
    ELSE c >= 128 /\ c <= 191

\* How many of the continuation bytes wanted after position i are there.
RECURSIVE Utf8ContRun(_, _, _, _)
Utf8ContRun(bs, i, w, k) ==
    IF k >= w THEN k - 1
    ELSE IF i + k > Len(bs) THEN k - 1
    ELSE IF Utf8ContOk(bs[i], k, bs[i + k]) THEN Utf8ContRun(bs, i, w, k + 1)
    ELSE k - 1

Utf8Payload(b, w) ==
    IF w = 1 THEN b
    ELSE IF w = 2 THEN b - 192
    ELSE IF w = 3 THEN b - 224
    ELSE b - 240

RECURSIVE Utf8Fold(_, _, _, _)
Utf8Fold(bs, i, n, acc) ==
    IF n = 0 THEN acc
    ELSE Utf8Fold(bs, i + 1, n - 1, acc * 64 + (bs[i] - 128))

\* Decode the sequence that starts at position i: its code point, whether it
\* was well formed, and the position after it.  An ill-formed sequence yields
\* one replacement character for its maximal well-formed prefix.
Utf8DecodeAt(bs, i) ==
    LET b == bs[i]
        w == Utf8Width(b)
    IN  IF w = 0 THEN [cp |-> ReplacementChar, ok |-> FALSE, next |-> i + 1]
        ELSE LET run == Utf8ContRun(bs, i, w, 1)
             IN  IF run = w - 1
                 THEN [cp |-> Utf8Fold(bs, i + 1, run, Utf8Payload(b, w)),
                       ok |-> TRUE, next |-> i + w]
                 ELSE [cp |-> ReplacementChar, ok |-> FALSE,
                       next |-> i + 1 + run]

RECURSIVE Utf8DecodeFrom(_, _)
Utf8DecodeFrom(bs, i) ==
    IF i > Len(bs) THEN <<>>
    ELSE LET d == Utf8DecodeAt(bs, i)
         IN  <<d.cp>> \o Utf8DecodeFrom(bs, d.next)

RECURSIVE Utf8ValidFrom(_, _)
Utf8ValidFrom(bs, i) ==
    IF i > Len(bs) THEN TRUE
    ELSE LET d == Utf8DecodeAt(bs, i)
         IN  d.ok /\ Utf8ValidFrom(bs, d.next)

Utf8Valid(bs) == Utf8ValidFrom(bs, 1)

\* String::from_utf8_lossy(bytes).to_string()
from_utf8_lossy(bs) == Utf8Encode(Utf8DecodeFrom(bs, 1))

\* ---------------------------------------------------------------- UTF-16
\* Variant: the code point is cut to 16 bits instead of being split into a
\* surrogate pair.
Utf16OfCpTruncated(c) == <<c % 65536>>

Utf16OfCp(c) ==
    IF c < 65536 THEN <<c>>
    ELSE <<55296 + ((c - 65536) \div 1024), 56320 + ((c - 65536) % 1024)>>

RECURSIVE Utf16Encode(_)
Utf16Encode(cps) ==
    IF cps = <<>> THEN <<>>
    ELSE Utf16OfCp(Head(cps)) \o Utf16Encode(Tail(cps))

IsHighSurrogate(u) == u >= 55296 /\ u <= 56319
IsLowSurrogate(u) == u >= 56320 /\ u <= 57343

RECURSIVE Utf16Decode(_)
Utf16Decode(us) ==
    IF us = <<>> THEN <<>>
    ELSE IF IsHighSurrogate(us[1]) /\ Len(us) >= 2 /\ IsLowSurrogate(us[2])
    THEN <<65536 + (us[1] - 55296) * 1024 + (us[2] - 56320)>>
         \o Utf16Decode(Tail(Tail(us)))
    ELSE IF IsHighSurrogate(us[1]) \/ IsLowSurrogate(us[1])
    THEN <<ReplacementChar>> \o Utf16Decode(Tail(us))
    ELSE <<us[1]>> \o Utf16Decode(Tail(us))

\* NSString::from_str(&str): the NSString holding the text of a Rust string.
from_str(s) == Utf16Encode(Utf8DecodeFrom(s, 1))

\* NSString::to_string(): the Rust String holding the text of an NSString.
to_string(ns) == Utf8Encode(Utf16Decode(ns))

\* The text arguments (Rust strings) and attachment arguments (Vec<u8>).
Texts == {Utf8Encode(cps) : cps \in SeqsUpTo(CodePoints, MaxTextLen)}
Datas == SeqsUpTo(DataBytes, MaxDataLen)

\* ------------------------------------------------- NSPasteboardItem, NSData
\* item.setData_forType(data, type): the representation is replaced when the
\* item already has the type and added after the others when it has not.
setData_forType(item, data, type) ==
    IF \E i \in 1..Len(item) : item[i].type = type
    THEN [i \in 1..Len(item) |->
            IF item[i].type = type THEN [type |-> type, data |-> data]
            ELSE item[i]]
    ELSE Append(item, [type |-> type, data |-> data])

\* item.dataForType(type): Option<Id<NSData>>, None when the item has no
\* representation of the type.
dataForType(item, type) ==
    IF \E i \in 1..Len(item) : item[i].type = type
    THEN Some(item[CHOOSE i \in 1..Len(item) : item[i].type = type].data)
    ELSE None

\* item.types(): the type identifiers of the item, in the item's order.
types(item) == [i \in 1..Len(item) |-> item[i].type]

\* NSPasteboardItem::init(NSPasteboardItem::alloc())
NewItem == <<>>

\* ------------------------------------------- objects handed to the pasteboard
StringObject(ns) == [cls |-> "NSString", str |-> ns, item |-> <<>>]
ItemObject(it) == [cls |-> "NSPasteboardItem", str |-> <<>>, item |-> it]

\* The pasteboard item an object written with writeObjects becomes: an
\* NSString is stored as one plain-text representation holding its UTF-8.
ItemOfObject(obj) ==
    IF obj.cls = "NSString"
    THEN <<[type |-> TypeText, data |-> Utf8Encode(Utf16Decode(obj.str))]>>
    ELSE obj.item

\* ------------------------------------------------------------- NSPasteboard
NULL == "NULL"
GeneralPasteboard == "generalPasteboard"

\* Variant: clearing leaves the first item behind.
clearContentsStale(its) == IF its = <<>> THEN <<>> ELSE <<Head(its)>>

\* pasteboard.clearContents()
clearContents(its) == <<>>

\* pasteboard.writeObjects(objects): when the OS reports success the objects
\* are on the pasteboard after what it already held, otherwise nothing is.
writeObjects(its, objects, success) ==
    IF success
    THEN its \o [i \in 1..Len(objects) |-> ItemOfObject(objects[i])]
    ELSE its

\* The objects of class cls the items of the pasteboard can be read as.
RECURSIVE ObjectsOfClass(_, _)
ObjectsOfClass(its, cls) ==
    IF its = <<>> THEN <<>>
    ELSE LET it == Head(its)
             rest == ObjectsOfClass(Tail(its), cls)
             txt == dataForType(it, TypeText)
         IN  IF cls = "NSPasteboardItem" THEN <<ItemObject(it)>> \o rest
             ELSE IF txt.some /\ Utf8Valid(txt.val)
             THEN <<StringObject(from_str(txt.val))>> \o rest
             ELSE rest

\* pasteboard.readObjectsForClasses_options([cls], None): the outcomes the OS
\* can give.  With nothing of the class there it answers null or an empty
\* array.
readObjectsForClasses_options(its, cls) ==
    LET objs == ObjectsOfClass(its, cls)
    IN  IF objs = <<>> THEN {None, Some(<<>>)} ELSE {Some(objs)}

\* How the answer of readObjectsForClasses is recorded.
OsAnswer(ret) ==
    IF ~ret.some THEN "null" ELSE IF ret.val = <<>> THEN "empty" ELSE "list"

\* ------------------------------------------------------------------ results
Result(tag, err, text, data, tys) ==
    [tag |-> tag, err |-> err, text |-> text, data |-> data, types |-> tys]
Ok == Result("Ok", "", <<>>, <<>>, <<>>)
OkText(t) == Result("Ok", "", t, <<>>, <<>>)
OkTextData(t, d) == Result("Ok", "", t, d, <<>>)
OkTypes(v) == Result("Ok", "", <<>>, <<>>, v)
Err(e) == Result("Err", e, <<>>, <<>>, <<>>)
\* Option::unwrap() on None: the call panics and returns nothing.
Panic == Result("Panic", "", <<>>, <<>>, <<>>)

\* ------------------------------------------------------------------- state
VARIABLES
    clipboard,   \* the Clipboard handle the caller holds, if any
    newRet,      \* what the last Clipboard::new() was given and returned
    items,       \* the items on the general pasteboard, first item first
    lastWrite,   \* the last write / write_data call: arguments, OS answer, result
    prevWrite,   \* the write / write_data call before that one
    lastRead,    \* the last read call made since lastWrite: OS answer, result
    writers,     \* the position of each concurrent writer in its call
    order        \* the concurrent writers in the order of their writeObjects

vars == <<clipboard, newRet, items, lastWrite, prevWrite, lastRead,
          writers, order>>

NoHandle == [live |-> FALSE, pasteboard |-> NULL]
Handle(pb) == [live |-> TRUE, pasteboard |-> pb]

NoNew == [called |-> FALSE, os |-> NULL, result |-> Ok]
NoWrite == [op |-> "none", text |-> <<>>, data |-> <<>>, os |-> FALSE,
            result |-> Ok]
NoPrevWrite == [op |-> "none", text |-> <<>>, tag |-> "Ok"]
NoRead == [op |-> "none", os |-> "none", result |-> Ok]

\* The pasteboard belongs to the OS: what it holds when the program starts is
\* whatever some application left there.
AttachmentOnlyItem == <<[type |-> TypeAttachment, data |-> <<2>>]>>
ForeignItem ==
    <<[type |-> "public.html", data |-> <<60>>],
      [type |-> TypeAttachment, data |-> <<1, 2>>],
      [type |-> TypeText, data |-> <<66>>]>>
IllFormedTextItem ==
    <<[type |-> TypeText, data |-> <<66, 226, 130>>],
      [type |-> TypeAttachment, data |-> <<>>]>>
InitialPasteboards ==
    { <<>>, <<AttachmentOnlyItem>>, <<ForeignItem, AttachmentOnlyItem>>,
      <<IllFormedTextItem>>, <<NewItem, ForeignItem>> }

\* ---------------------------------------------------------- Clipboard::new
\* Variant: the Option is wrapped into the handle without the null check.
new_body_unchecked(pasteboard) ==
    [result |-> Ok, clipboard |-> Handle(pasteboard)]

\* ok_or on the Option the OS call gives, then Ok(Self { pasteboard }).
new_body(pasteboard) ==
    IF pasteboard = NULL
    THEN [result |-> Err(ErrNewNull), clipboard |-> NoHandle]
    ELSE [result |-> Ok, clipboard |-> Handle(pasteboard)]

new ==
    /\ ~clipboard.live
    /\ \E pasteboard \in {NULL, GeneralPasteboard} :
         LET r == new_body(pasteboard)
         IN  /\ clipboard' = r.clipboard
             /\ newRet' = [called |-> TRUE, os |-> pasteboard,
                           result |-> r.result]
    /\ UNCHANGED <<items, lastWrite, prevWrite, lastRead, writers, order>>

\* --------------------------------------------------------- Clipboard::read
read_body(string_array) ==
    IF ~string_array.some THEN Err(ErrReadNull)
    ELSE IF string_array.val = <<>> THEN Err(ErrReadEmpty)
    ELSE OkText(to_string(Head(string_array.val).str))

read ==
    /\ clipboard.live
    /\ \E string_array \in readObjectsForClasses_options(items, "NSString") :
         lastRead' = [op |-> "read", os |-> OsAnswer(string_array),
                      result |-> read_body(string_array)]
    /\ UNCHANGED <<clipboard, newRet, items, lastWrite, prevWrite,
                   writers, order>>

\* ---------------------------------------------------- Clipboard::read_data
\* Variant: the two type identifiers are exchanged in the dataForType calls.
read_data_body_swapped(string_array) ==
    IF ~string_array.some THEN Err(ErrReadNull)
    ELSE IF string_array.val = <<>> THEN Err(ErrReadEmpty)
    ELSE LET ss == Head(string_array.val).item
             ns1 == dataForType(ss, TypeAttachment)
             ns2 == dataForType(ss, TypeText)
         IN  IF ~ns1.some THEN Panic
             ELSE IF ~ns2.some THEN Panic
             ELSE OkTextData(from_utf8_lossy(ns1.val), ns2.val)

read_data_body(string_array) ==
    IF ~string_array.some THEN Err(ErrReadNull)
    ELSE IF string_array.val = <<>> THEN Err(ErrReadEmpty)
    ELSE LET ss == Head(string_array.val).item
             ns1 == dataForType(ss, TypeText)
             ns2 == dataForType(ss, TypeAttachment)
         IN  IF ~ns1.some THEN Panic
             ELSE IF ~ns2.some THEN Panic
             ELSE OkTextData(from_utf8_lossy(ns1.val), ns2.val)

read_data ==
    /\ clipboard.live
    /\ \E string_array \in
            readObjectsForClasses_options(items, "NSPasteboardItem") :
         lastRead' = [op |-> "read_data", os |-> OsAnswer(string_array),
                      result |-> read_data_body(string_array)]
    /\ UNCHANGED <<clipboard, newRet, items, lastWrite, prevWrite,
                   writers, order>>

\* -------------------------------------------------- Clipboard::read_buffer
\* Variant: the loop stops one short of ss.count().
RECURSIVE push_types_short(_, _, _)
push_types_short(ss, i, v) ==
    IF i + 1 >= Len(ss) THEN v
    ELSE push_types_short(ss, i + 1, Append(v, ss[i + 1]))

\* for i in 0..ss.count() { v.push(ss.get(i).unwrap().to_string()) }
RECURSIVE push_types(_, _, _)
push_types(ss, i, v) ==
    IF i >= Len(ss) THEN v
    ELSE push_types(ss, i + 1, Append(v, ss[i + 1]))

\* Variant: an empty array is not checked for and reads as an item without
\* types.
read_buffer_body_unchecked(string_array) ==
    IF ~string_array.some THEN Err(ErrReadNull)
    ELSE IF string_array.val = <<>> THEN OkTypes(<<>>)
    ELSE LET ss == types(Head(string_array.val).item)
         IN  OkTypes(push_types(ss, 0, <<>>))

read_buffer_body(string_array) ==
    IF ~string_array.some THEN Err(ErrReadNull)
    ELSE IF string_array.val = <<>> THEN Err(ErrReadEmpty)
    ELSE LET ss == types(Head(string_array.val).item)
         IN  OkTypes(push_types(ss, 0, <<>>))

read_buffer ==
    /\ clipboard.live
    /\ \E string_array \in
            readObjectsForClasses_options(items, "NSPasteboardItem") :
         lastRead' = [op |-> "read_buffer", os |-> OsAnswer(string_array),
                      result |-> read_buffer_body(string_array)]
    /\ UNCHANGED <<clipboard, newRet, items, lastWrite, prevWrite,
                   writers, order>>

\* -------------------------------------------------------- Clipboard::write
\* NSArray::from_vec(vec![ProtocolObject::from_id(NSString::from_str(&data))])
write_objects(data) == <<StringObject(from_str(data))>>

\* Variant: the boolean writeObjects returns is ignored.
write_result_ignored(success) == Ok

\* if success { Ok(()) } else { Err(..) }
write_result(success) == IF success THEN Ok ELSE Err(ErrWriteFalse)

\* Variant: the pasteboard is cleared only once the write is known to succeed.
clear_then_write_lazy(its, objects, success) ==
    IF success THEN writeObjects(clearContents(its), objects, success)
    ELSE its

\* clearContents, then writeObjects: the pasteboard afterwards.
clear_then_write(its, objects, success) ==
    writeObjects(clearContents(its), objects, success)

write ==
    /\ clipboard.live
    /\ \E data \in Texts, success \in BOOLEAN :
         /\ items' = clear_then_write(items, write_objects(data), success)
         /\ lastWrite' = [op |-> "write", text |-> data, data |-> <<>>,
                          os |-> success,
                          result |-> write_result(success)]
    /\ prevWrite' = [op |-> lastWrite.op, text |-> lastWrite.text,
                     tag |-> lastWrite.result.tag]
    /\ lastRead' = NoRead
    /\ UNCHANGED <<clipboard, newRet, writers, order>>

\* --------------------------------------------------- Clipboard::write_data
\* The item is built with both representations before it is handed over.
write_data_objects(s, data) ==
    LET ns_data1 == s
        ns_data2 == data
        item == setData_forType(
                    setData_forType(NewItem, ns_data1, TypeText),
                    ns_data2, TypeAttachment)
    IN  <<ItemObject(item)>>

write_data ==
    /\ clipboard.live
    /\ \E s \in Texts, data \in Datas, success \in BOOLEAN :
         /\ items' = clear_then_write(items, write_data_objects(s, data),
                                      success)
         /\ lastWrite' = [op |-> "write_data", text |-> s, data |-> data,
                          os |-> success,
                          result |-> write_result(success)]
    /\ prevWrite' = [op |-> lastWrite.op, text |-> lastWrite.text,
                     tag |-> lastWrite.result.tag]
    /\ lastRead' = NoRead
    /\ UNCHANGED <<clipboard, newRet, writers, order>>

\* ------------------------------------------------------ the sequential model
Init ==
    /\ clipboard = NoHandle
    /\ newRet = NoNew
    /\ items \in InitialPasteboards
    /\ lastWrite = NoWrite
    /\ prevWrite = NoPrevWrite
    /\ lastRead = NoRead
    /\ writers = <<>>
    /\ order = <<>>

Next ==
    \/ new
    \/ read
    \/ read_data
    \/ read_buffer
    \/ write
    \/ write_data

Spec == Init /\ [][Next]_vars

\* ------------------------------------------------------ concurrent writers
\* Clipboard is Send + Sync and every Clipboard::new() refers to the same
\* general pasteboard, so two writers (two threads, or this process and
\* another one) can be inside write / write_data at once.  A call is then the
\* sequence of its two pasteboard operations, clearContents and writeObjects,
\* and the operations of the two calls interleave.
Writers == {"A", "B"}

Idle == [pc |-> "idle", op |-> "none", text |-> <<>>, data |-> <<>>,
         result |-> Ok]

call_objects(w) ==
    IF w.op = "write" THEN write_objects(w.text)
    ELSE write_data_objects(w.text, w.data)

\* write(data) up to its first pasteboard operation.
write_call(w) ==
    /\ clipboard.live
    /\ writers[w].pc = "idle"
    /\ \E data \in Texts :
         writers' = [writers EXCEPT ![w] =
                        [pc |-> "clearContents", op |-> "write",
                         text |-> data, data |-> <<>>, result |-> Ok]]
    /\ UNCHANGED <<clipboard, newRet, items, lastWrite, prevWrite, lastRead,
                   order>>

\* write_data(s, data) up to its first pasteboard operation.
write_data_call(w) ==
    /\ clipboard.live
    /\ writers[w].pc = "idle"
    /\ \E s \in Texts, data \in Datas :
         writers' = [writers EXCEPT ![w] =
                        [pc |-> "clearContents", op |-> "write_data",
                         text |-> s, data |-> data, result |-> Ok]]
    /\ UNCHANGED <<clipboard, newRet, items, lastWrite, prevWrite, lastRead,
                   order>>

\* unsafe { self.pasteboard.clearContents() }
write_clearContents(w) ==
    /\ writers[w].pc = "clearContents"
    /\ items' = clearContents(items)
    /\ writers' = [writers EXCEPT ![w].pc = "writeObjects"]
    /\ lastRead' = NoRead
    /\ UNCHANGED <<clipboard, newRet, lastWrite, prevWrite, order>>

\* let success = unsafe { self.pasteboard.writeObjects(&string_array) };
\* and the return of the call.
write_writeObjects(w) ==
    /\ writers[w].pc = "writeObjects"
    /\ \E success \in BOOLEAN :
         /\ items' = writeObjects(items, call_objects(writers[w]), success)
         /\ writers' = [writers EXCEPT ![w].pc = "done",
                                       ![w].result = write_result(success)]
    /\ order' = Append(order, w)
    /\ lastRead' = NoRead
    /\ UNCHANGED <<clipboard, newRet, lastWrite, prevWrite>>

InitConc ==
    /\ clipboard = Handle(GeneralPasteboard)
    /\ newRet = [called |-> TRUE, os |-> GeneralPasteboard, result |-> Ok]
    /\ items \in InitialPasteboards
    /\ lastWrite = NoWrite
    /\ prevWrite = NoPrevWrite
    /\ lastRead = NoRead
    /\ writers = [w \in Writers |-> Idle]
    /\ order = <<>>

NextConc ==
    \/ \E w \in Writers : write_call(w)
    \/ \E w \in Writers : write_data_call(w)
    \/ \E w \in Writers : write_clearContents(w)
    \/ \E w \in Writers : write_writeObjects(w)
    \/ read
    \/ read_data
    \/ read_buffer

SpecConc == InitConc /\ [][NextConc]_vars

\* ================================================================ properties
\* The error kind of a read that found nothing: either message of the
\* filtered read.
NoCompatibleData == {ErrReadNull, ErrReadEmpty}

WriteOk == lastWrite.op \in {"write", "write_data"} /\ lastWrite.result.tag = "Ok"
WriteErr == lastWrite.op \in {"write", "write_data"} /\ lastWrite.result.tag = "Err"

Range(f) == {f[i] : i \in DOMAIN f}

\* C1 -- text round trip: a read() that follows a write(s) that returned Ok,
\* with no writer in between, returns Ok(s).
C1_TextRoundTrip ==
    (lastWrite.op = "write" /\ WriteOk /\ lastRead.op = "read")
        => lastRead.result = OkText(lastWrite.text)

\* C1 witness: a four-byte (surrogate-pair) text was written and read back.
C1_Witness ==
    /\ lastWrite.op = "write" /\ WriteOk /\ lastRead.op = "read"
    /\ Len(lastWrite.text) = 4
    /\ lastRead.result.tag = "Ok"
    /\ lastRead.result.text = lastWrite.text

\* C2 -- attachment round trip: a read_data() that follows a write_data(s, b)
\* that returned Ok, with no writer in between, returns Ok((s, b)), s being
\* the plain-text payload and b the attachment payload of the first item.
C2_DataRoundTrip ==
    (lastWrite.op = "write_data" /\ WriteOk /\ lastRead.op = "read_data")
        => /\ lastRead.result = OkTextData(lastWrite.text, lastWrite.data)
           /\ dataForType(items[1], TypeText) = Some(lastWrite.text)
           /\ dataForType(items[1], TypeAttachment) = Some(lastWrite.data)

\* C2 witness: a multi-byte text with an empty attachment was written and
\* read back.
C2_Witness ==
    /\ lastWrite.op = "write_data" /\ WriteOk /\ lastRead.op = "read_data"
    /\ Len(lastWrite.text) > 1 /\ lastWrite.data = <<>>
    /\ lastRead.result.tag = "Ok"
    /\ lastRead.result.text = lastWrite.text
    /\ lastRead.result.data = <<>>

\* C3 -- absent representation: when the first item lacks one of the two
\* named representations, read_data() returns Ok with an empty payload for the
\* absent one; it neither fails nor aborts.
C3_AbsentRepresentationIsEmpty ==
    (lastRead.op = "read_data" /\ lastRead.os = "list")
        => /\ lastRead.result.tag = "Ok"
           /\ ~dataForType(items[1], TypeText).some
                 => lastRead.result.text = <<>>
           /\ ~dataForType(items[1], TypeAttachment).some
                 => lastRead.result.data = <<>>

\* C4 -- the second write replaces the first: after two write calls that both
\* returned Ok the pasteboard holds exactly one item, the item of the second
\* call, and every read returns the second call's content only.
C4_SecondWriteReplaces ==
    (lastWrite.op = "write" /\ WriteOk
       /\ prevWrite.op = "write" /\ prevWrite.tag = "Ok")
        => /\ Len(items) = 1
           /\ items[1] = <<[type |-> TypeText, data |-> lastWrite.text]>>
           /\ lastRead.op = "read"
                 => lastRead.result = OkText(lastWrite.text)
           /\ lastRead.op = "read_buffer"
                 => lastRead.result = OkTypes(<<TypeText>>)
           /\ (lastRead.op = "read_data" /\ lastRead.result.tag = "Ok")
                 => lastRead.result.text = lastWrite.text

\* C4 witness: two different texts were written one after the other and the
\* second was read.
C4_Witness ==
    /\ lastWrite.op = "write" /\ WriteOk
    /\ prevWrite.op = "write" /\ prevWrite.tag = "Ok"
    /\ prevWrite.text # lastWrite.text /\ prevWrite.text # <<>>
    /\ lastRead.op = "read"
    /\ lastRead.result.text = lastWrite.text

\* C5 -- nothing to read is an error value: read, read_data and read_buffer
\* return the NoCompatibleData error when the filtered read answers null and
\* when it answers an empty list, as it does on a cleared pasteboard.
C5_NothingToReadIsError ==
    /\ (lastRead.op # "none" /\ lastRead.os \in {"null", "empty"})
          => /\ lastRead.result.tag = "Err"
             /\ lastRead.result.err \in NoCompatibleData
    /\ (lastRead.op # "none" /\ items = <<>>)
          => /\ lastRead.os \in {"null", "empty"}
             /\ lastRead.result.tag = "Err"

\* C5 witness: read_buffer() on a pasteboard a failed write left cleared, with
\* the OS answering an empty list.
C5_Witness ==
    /\ WriteErr /\ items = <<>>
    /\ lastRead.op = "read_buffer" /\ lastRead.os = "empty"
    /\ lastRead.result = Err(ErrReadEmpty)

\* C6 -- the write result mirrors the OS signal: write and write_data return
\* Ok exactly when writeObjects reported true and the WriteRejected error
\* exactly when it reported false.
C6_WriteMirrorsOs ==
    lastWrite.op \in {"write", "write_data"}
        => /\ lastWrite.result = Ok <=> lastWrite.os
           /\ lastWrite.result = Err(ErrWriteFalse) <=> ~lastWrite.os

\* C6 witness: a write_data the OS rejected returned the error.
C6_Witness ==
    /\ lastWrite.op = "write_data" /\ ~lastWrite.os
    /\ lastWrite.result.tag = "Err"

\* C7 -- enumeration consistency: read_buffer() returns exactly the type
\* identifiers of the first item, in the item's order, and after a
\* write_data that returned Ok these include both fixed identifiers.
C7_EnumerationConsistent ==
    /\ (lastRead.op = "read_buffer" /\ lastRead.os = "list")
          => lastRead.result = OkTypes(types(items[1]))
    /\ (lastWrite.op = "write_data" /\ WriteOk /\ lastRead.op = "read_buffer")
          => /\ lastRead.result.tag = "Ok"
             /\ TypeText \in Range(lastRead.result.types)
             /\ TypeAttachment \in Range(lastRead.result.types)

\* C7 witness: read_buffer() after a write_data listed both identifiers.
C7_Witness ==
    /\ lastWrite.op = "write_data" /\ WriteOk
    /\ lastRead.op = "read_buffer"
    /\ lastRead.result.types = <<TypeText, TypeAttachment>>

\* C8 -- last writer wins: once two interleaved writers have both returned
\* Ok, read() returns the text of the writer whose writeObjects came last.
C8_LastWriterWins ==
    (/\ DOMAIN writers = Writers
     /\ \A w \in Writers :
          writers[w].pc = "done" /\ writers[w].result.tag = "Ok"
     /\ lastRead.op = "read")
        => lastRead.result = OkText(writers[order[Len(order)]].text)

\* C9 -- construction is fallible and total: new() returns the error and no
\* handle when the OS gives a null pasteboard, otherwise a handle whose
\* reference is that pasteboard; a handle never holds a null reference.
C9_ConstructionTotal ==
    /\ (newRet.called /\ newRet.os = NULL)
          => newRet.result = Err(ErrNewNull) /\ ~clipboard.live
    /\ (newRet.called /\ newRet.os # NULL)
          => newRet.result = Ok /\ clipboard = Handle(newRet.os)
    /\ clipboard.live => clipboard.pasteboard # NULL
    /\ (lastRead.op # "none" \/ lastWrite.op # "none") => clipboard.live

\* C9 witness: new() was given a null pasteboard and returned the error.
C9_Witness ==
    /\ newRet.called /\ newRet.os = NULL
    /\ newRet.result.tag = "Err"
    /\ ~clipboard.live

\* C10 -- a failed write is still destructive: when write or write_data
\* returns the error the pasteboard is empty, whatever it held before, and a
\* following read() fails with NoCompatibleData.
C10_FailedWriteDestructive ==
    WriteErr
        => /\ items = <<>>
           /\ lastRead.op = "read"
                 => /\ lastRead.result.tag = "Err"
                    /\ lastRead.result.err \in NoCompatibleData

\* C10 witness: a text was written, the next write was rejected, and the read
\* after it failed.
C10_Witness ==
    /\ prevWrite.op = "write" /\ prevWrite.tag = "Ok" /\ prevWrite.text # <<>>
    /\ WriteErr /\ items = <<>>
    /\ lastRead.op = "read" /\ lastRead.result.tag = "Err"

====
